---- MODULE Spec2Model ----
(***************************************************************************)
(* Model of examples/moddepth_analysis.py: the output filename resolver    *)
(* _check_filename and the per-subject / per-condition driver loop.        *)
(*                                                                         *)
(* A path is a sequence of tokens.  The tokens "." and "/" are the dot and *)
(* the path separator; every other token is a non-empty piece of text that *)
(* contains neither of them.  A file is a sequence of rows; a row is the   *)
(* sequence of its comma-separated fields.                                 *)
(***************************************************************************)
EXTENDS Integers, Sequences, FiniteSets, TLC

VARIABLES
    procs,          \* the running instances of the script
    subjectList,    \* sys.argv[4:] of each instance
    minTrials,      \* int(sys.argv[3]) of each instance
    order,          \* iteration order of the dict loadName in each instance
    faults,         \* which failures the environment of this run may produce
    fs,             \* the save directory: path -> file content
    pc,             \* position of each instance in the script
    sIdx,           \* index of the loop variable s in subjectList
    c,              \* loop variable c
    counter,        \* _check_filename: counter
    fullFilename,   \* _check_filename: fullFilename
    outputFilename, \* outputFilename
    outputFile,     \* the file object bound to outputFile
    l,              \* loop variable l, as an index into order
    mat,            \* mat.shape[1] of the matrix bound to mat
    combinedData,   \* combinedData
    plvF,           \* loop variable plvF
    stdout,         \* what each instance has printed
    attempts,       \* history: the (subject index, condition) pairs started
    cur,            \* history: what happened in the current iteration
    subjLog,        \* history: the finished iterations of the current subject
    opens,          \* history: the paths each instance has opened for writing
    raised          \* history: every exception raised, with its place

vars == <<procs, subjectList, minTrials, order, faults, fs, pc, sIdx, c,
          counter, fullFilename, outputFilename, outputFile, l, mat,
          combinedData, plvF, stdout, attempts, cur, subjLog, opens, raised>>

(***************************************************************************)
(* Bounds of the model.                                                    *)
(***************************************************************************)
\* len(params['f']): the number of analyzed frequencies
NumFreqs == 2
\* how many collision suffixes the files found in the save directory carry
MaxChain == 2
\* how far a loaded matrix's trial count may exceed minTrials
MaxExtraTrials == 1

(***************************************************************************)
(* Program constants.                                                      *)
(***************************************************************************)
Fs == 5000
nDraws == 100
NumConditions == 3
NegativeOffset == 6

(***************************************************************************)
(* Strings and paths.                                                      *)
(***************************************************************************)
Last(seq) == seq[Len(seq)]

Digits == <<"0", "1", "2", "3", "4", "5", "6", "7", "8", "9">>

\* str(n) for a non-negative integer
RECURSIVE Str(_)
Str(n) == IF n < 10 THEN <<Digits[n + 1]>>
          ELSE Str(n \div 10) \o <<Digits[(n % 10) + 1]>>

\* os.path.join(a, b)
Join(a, b) ==
    IF b # <<>> /\ b[1] = "/" THEN b
    ELSE IF a = <<>> \/ Last(a) = "/" THEN a \o b
    ELSE a \o <<"/">> \o b

\* str.rfind for a token: the largest index holding tok, 0 if none
RFind(p, tok) ==
    LET hits == {i \in 1..Len(p) : p[i] = tok}
    IN  IF hits = {} THEN 0 ELSE CHOOSE i \in hits : \A j \in hits : j <= i

\* os.path.splitext(p)[0]: the extension starts at the last dot of the last
\* path component, unless only dots precede it in that component
SplitExtRoot(p) ==
    LET sepIndex == RFind(p, "/")
        dotIndex == RFind(p, ".")
    IN  IF dotIndex > sepIndex
           /\ \E i \in (sepIndex + 1)..(dotIndex - 1) : p[i] # "."
        THEN SubSeq(p, 1, dotIndex - 1)
        ELSE p

\* os.path.exists in the save directory
PathExists(fsys, path) == path \in DOMAIN fsys

\* the renaming step of _check_filename
NextCandidate(name, n) == SplitExtRoot(name) \o <<"_">> \o Str(n) \o <<".", "csv">>

\* the loop condition of _check_filename
RetryIfInsteadOfWhile(fsys, name, n) == n < 1 /\ PathExists(fsys, name)
RetryNever(fsys, name, n) == FALSE
Retry(fsys, name, n) == PathExists(fsys, name)

SaveDir == <<"saveDir">>


\* os.path.join(saveDir, saveName) for the loop's s and c (lines 82, 45)
SaveName(s, cnd) == <<s, "_condition_">> \o Str(cnd) \o <<".", "csv">>

\* loadName[polarity] (lines 78-79)
LoadName(s, cnd, pol) ==
    <<s, "_S_">> \o Str(IF pol = "positive" THEN cnd ELSE cnd + NegativeOffset)
                 \o <<".", "mat">>

(***************************************************************************)
(* Files.                                                                  *)
(***************************************************************************)
\* the column headers written first (lines 123-136)
Header ==
    << <<"Subject Name">>, <<"Condition">>, <<"Number of Draws">>,
       <<"Trials per Draw">>, <<"Frequency">>,
       <<"PLV**2: bootstrapped mean">>, <<"PLV**2: bootstrapped variance">>,
       <<"Spectrum: bootstrapped mean">>, <<"Spectrum: bootstrapped variance">>,
       <<"Noise floor PLV**2: bootstrapped mean">>,
       <<"Noise floor PLV**2: bootstrapped variance">>,
       <<"Noise floor Spectrum: bootstrapped mean">>,
       <<"Noise floor Spectrum: bootstrapped variance">> >>

\* result[variant][stat][k], an opaque value of the estimator
Stat(variant, stat, k) == <<variant, stat>> \o Str(k)

\* the data row of frequency index k (lines 140-177)
DataRow(s, cnd, nPerDraw, k) ==
    << <<s>>, Str(cnd), Str(nDraws), Str(nPerDraw), <<"f">> \o Str(k),
       Stat("mtcpcaPLV_normalPhase", "bootMean", k),
       Stat("mtcpcaPLV_normalPhase", "bootVariance", k),
       Stat("mtcpcaSpectrum_normalPhase", "bootMean", k),
       Stat("mtcpcaSpectrum_normalPhase", "bootVariance", k),
       Stat("mtcpcaPLV_phaseFlipHalfTrials", "bootMean", k),
       Stat("mtcpcaPLV_phaseFlipHalfTrials", "bootVariance", k),
       Stat("mtcpcaSpectrum_phaseFlipHalfTrials", "bootMean", k),
       Stat("mtcpcaSpectrum_phaseFlipHalfTrials", "bootVariance", k) >>

\* range(len(params['f'])) (line 139)
FreqRangeShort == 0..(NumFreqs - 2)
FreqRange == 0..(NumFreqs - 1)

\* open(path, 'w'): creates the file, or truncates the one that is there
OpenW(fsys, path) ==
    [f \in DOMAIN fsys \cup {path} |-> IF f = path THEN <<>> ELSE fsys[f]]

\* file.write(row) through a file object whose position is pos rows
Hole == << >>
WriteAt(content, pos, row) ==
    [i \in 1..(IF pos + 1 > Len(content) THEN pos + 1 ELSE Len(content)) |->
        IF i = pos + 1 THEN row
        ELSE IF i <= Len(content) THEN content[i] ELSE Hole]

NoFile == [path |-> <<>>, pos |-> 0, closed |-> TRUE]

(***************************************************************************)
(* The checks and the handlers of the driver.                              *)
(***************************************************************************)
\* assert mat.shape[1] > minTrials (line 96)
TrialsOKNotStrict(n, mT) == n >= mT
TrialsOK(n, mT) == n > mT

\* assert sampleRateFromFile == params['Fs'] (line 98)
RateOKAlways(r) == TRUE
RateOK(r) == r = Fs

\* the exceptions the try statement has a handler for (lines 183, 188)
CaughtOnlyIOError(kind) == kind = "IOError"
Caught(kind) == kind \in {"IOError", "AssertionError"}

\* useTrials = permutedTrials[0:minTrials] (lines 101-102), by its length
UseTrials(n, mT) == IF n < mT THEN n ELSE mT


(***************************************************************************)
(* The environment: what the data directory holds and what the calls into  *)
(* the libraries may do.                                                   *)
(***************************************************************************)
\* the runs explored: the subjects of the command line, and the failures the
\* environment may produce ("any": all of them, "missing": input files may
\* be missing, "none": every call succeeds)
Runs == {[subjects |-> <<"a">>, faults |-> "any"],
         [subjects |-> <<"a", "a">>, faults |-> "missing"],
         [subjects |-> <<"b", "a">>, faults |-> "missing"]}
MinTrialsArgs == {2}
DictOrders == {<<"positive", "negative">>, <<"negative", "positive">>}

\* what io.loadmat finds under a name of the data directory
ValidMat(mT) == [kind |-> "mat", trials |-> mT + 1, rate |-> Fs]
Absent(k) == [kind |-> k, trials |-> 0, rate |-> 0]
InputContents(mT) ==
    IF faults = "none" THEN {ValidMat(mT)}
    ELSE IF faults = "missing" THEN {ValidMat(mT), Absent("missing")}
    ELSE {Absent("missing"), Absent("malformed")}
         \cup {[kind |-> "mat", trials |-> n, rate |-> r] :
                  n \in (mT - 1)..(mT + MaxExtraTrials), r \in {Fs, Fs \div 5}}

\* whether a call that can fail succeeds
CallOutcomes == IF faults = "any" THEN BOOLEAN ELSE {TRUE}

\* how bootstrap.bootfunc ends: it returns, or raises an exception
EstimatorOutcomes ==
    IF faults = "any" THEN {"ok", "IOError", "AssertionError", "Other"}
    ELSE {"ok"}

\* the files earlier runs for subject "a" left in the save directory
RECURSIVE Chain(_, _)
Chain(name, d) == IF d = 0 THEN name ELSE NextCandidate(Chain(name, d - 1), d)

LeftByEarlierRuns(k) ==
    {Chain(Join(SaveDir, SaveName("a", cnd)), d) :
        cnd \in 1..NumConditions, d \in 0..(k - 1)}

(***************************************************************************)
(* State of one instance.                                                  *)
(***************************************************************************)
NoCur == [requested |-> <<>>, path |-> <<>>, fsBefore |-> <<>>, outMark |-> 0, loads |-> <<>>,
          estCalls |-> 0, exc |-> "none", cause |-> "none",
          outcome |-> "none"]

\* the entry of subjLog for an iteration that has ended
Finished(rec) == [rec EXCEPT !.fsBefore = <<>>, !.loads = <<>>]

CurSubject(p) == subjectList[p][sIdx[p]]
CurLoadName(p, idx) == LoadName(CurSubject(p), c[p], order[p][idx])

\* the loop headers of lines 73-74: the pair after (i, cnd), <<0, 0>> if none
NextPair(p, i, cnd) ==
    IF i = 0 THEN (IF Len(subjectList[p]) = 0 THEN <<0, 0>> ELSE <<1, 1>>)
    ELSE IF cnd < NumConditions THEN <<i, cnd + 1>>
    ELSE IF i < Len(subjectList[p]) THEN <<i + 1, 1>>
    ELSE <<0, 0>>

AllPairs(p) ==
    [k \in 1..(NumConditions * Len(subjectList[p])) |->
        <<((k - 1) \div NumConditions) + 1, ((k - 1) % NumConditions) + 1>>]

\* the message of the handler that catches an exception of this kind
SkipMessage(p, kind, lNow, matNow) ==
    IF kind = "IOError"
    THEN [kind |-> "missing", file |-> CurLoadName(p, lNow), n |-> 0,
          cond |-> c[p]]
    ELSE [kind |-> "trials", file |-> CurLoadName(p, lNow), n |-> matNow,
          cond |-> c[p]]

\* an exception raised inside the try statement (lines 86-193): a handler
\* prints its message and continues with the next condition, or the
\* exception leaves the script
Except(p, kind, cause, lNow, matNow, curNow) ==
    LET ended == [curNow EXCEPT !.exc = kind, !.cause = cause,
                     !.outcome = IF Caught(kind) THEN "skipped" ELSE "crashed"]
    IN  /\ raised' = [raised EXCEPT ![p] = Append(@, [kind |-> kind, place |-> "try"])]
        /\ stdout' = [stdout EXCEPT ![p] =
                        IF Caught(kind)
                        THEN Append(@, SkipMessage(p, kind, lNow, matNow))
                        ELSE @]
        /\ pc' = [pc EXCEPT ![p] = IF Caught(kind) THEN "iter" ELSE "crashed"]
        /\ cur' = [cur EXCEPT ![p] = ended]
        /\ subjLog' = [subjLog EXCEPT ![p] = Append(@, Finished(ended))]

config == <<procs, subjectList, minTrials, order, faults>>

(***************************************************************************)
(* The steps of the script.                                                *)
(***************************************************************************)
\* lines 73-83 and 44-45: the next (s, c), the names, entry to _check_filename
LoopHead(p) ==
    /\ pc[p] = "iter"
    /\ LET nxt == NextPair(p, sIdx[p], c[p])
       IN  IF nxt = <<0, 0>>
           THEN /\ pc' = [pc EXCEPT ![p] = "done"]
                /\ UNCHANGED <<sIdx, c, counter, fullFilename, stdout,
                               attempts, cur, subjLog>>
           ELSE /\ sIdx' = [sIdx EXCEPT ![p] = nxt[1]]
                /\ c' = [c EXCEPT ![p] = nxt[2]]
                /\ stdout' = [stdout EXCEPT ![p] =
                        Append(@, [kind |-> "condition", file |-> <<>>,
                                   n |-> 0, cond |-> nxt[2]])]
                /\ counter' = [counter EXCEPT ![p] = 0]
                /\ fullFilename' = [fullFilename EXCEPT ![p] =
                        Join(SaveDir, SaveName(subjectList[p][nxt[1]], nxt[2]))]
                /\ attempts' = [attempts EXCEPT ![p] = Append(@, nxt)]
                /\ cur' = [cur EXCEPT ![p] =
                        [NoCur EXCEPT
                            !.requested = Join(SaveDir,
                                    SaveName(subjectList[p][nxt[1]], nxt[2])),
                            !.fsBefore = fs, !.outcome = "running",
                            !.outMark = Len(stdout[p])]]
                /\ subjLog' = [subjLog EXCEPT ![p] = IF nxt[2] = 1 THEN <<>> ELSE @]
                /\ pc' = [pc EXCEPT ![p] = "check"]
    /\ UNCHANGED <<config, fs, outputFilename, outputFile, l, mat,
                   combinedData, plvF, opens, raised>>

\* lines 47-52: one test of the while condition of _check_filename
CheckFilename(p) ==
    /\ pc[p] = "check"
    /\ IF Retry(fs, fullFilename[p], counter[p])
       THEN /\ counter' = [counter EXCEPT ![p] = @ + 1]
            /\ fullFilename' = [fullFilename EXCEPT ![p] =
                                    NextCandidate(@, counter[p] + 1)]
            /\ UNCHANGED <<pc, outputFilename>>
       ELSE /\ outputFilename' = [outputFilename EXCEPT ![p] = fullFilename[p]]
            /\ pc' = [pc EXCEPT ![p] = "open"]
            /\ UNCHANGED <<counter, fullFilename>>
    /\ UNCHANGED <<config, fs, sIdx, c, outputFile, l, mat, combinedData,
                   plvF, stdout, attempts, cur, subjLog, opens, raised>>

\* lines 84-87: open the output file for writing; a failure here is outside
\* the try statement
OpenOutput(p) ==
    /\ pc[p] = "open"
    /\ \E ok \in CallOutcomes :
        IF ok
        THEN /\ fs' = OpenW(fs, outputFilename[p])
             /\ outputFile' = [outputFile EXCEPT ![p] =
                    [path |-> outputFilename[p], pos |-> 0, closed |-> FALSE]]
             /\ opens' = [opens EXCEPT ![p] = Append(@, outputFilename[p])]
             /\ combinedData' = [combinedData EXCEPT ![p] = <<>>]
             /\ cur' = [cur EXCEPT ![p].path = outputFilename[p]]
             /\ pc' = [pc EXCEPT ![p] = "load"]
             /\ UNCHANGED raised
        ELSE /\ raised' = [raised EXCEPT ![p] =
                    Append(@, [kind |-> "IOError", place |-> "open"])]
             /\ cur' = [cur EXCEPT ![p].exc = "IOError", ![p].cause = "open",
                                   ![p].outcome = "crashed"]
             /\ pc' = [pc EXCEPT ![p] = "crashed"]
             /\ UNCHANGED <<fs, outputFile, opens, combinedData>>
    /\ UNCHANGED <<config, sIdx, c, counter, fullFilename, outputFilename, l,
                   mat, plvF, stdout, attempts, subjLog>>

\* lines 90-107: one pass of the loop over loadName: load, check, subsample
LoadMat(p) ==
    /\ pc[p] = "load"
    /\ LET idx == Len(combinedData[p]) + 1
           pol == order[p][idx]
       IN  \E content \in InputContents(minTrials[p]) :
            LET seen == [cur[p] EXCEPT !.loads =
                            Append(@, [pol |-> pol, content |-> content])]
            IN  /\ l' = [l EXCEPT ![p] = idx]
                /\ IF content.kind = "missing"
                   THEN /\ Except(p, "IOError", "missing", idx, mat[p], seen)
                        /\ UNCHANGED <<mat, combinedData>>
                   ELSE IF content.kind = "malformed"
                   THEN /\ Except(p, "Other", "malformed", idx, mat[p], seen)
                        /\ UNCHANGED <<mat, combinedData>>
                   ELSE /\ mat' = [mat EXCEPT ![p] = content.trials]
                        /\ IF ~TrialsOK(content.trials, minTrials[p])
                           THEN /\ Except(p, "AssertionError", "trials", idx,
                                          content.trials, seen)
                                /\ UNCHANGED combinedData
                           ELSE IF ~RateOK(content.rate)
                           THEN /\ Except(p, "AssertionError", "rate", idx,
                                          content.trials, seen)
                                /\ UNCHANGED combinedData
                           ELSE /\ combinedData' = [combinedData EXCEPT ![p] =
                                        Append(@, [pol |-> pol, nTrials |->
                                            UseTrials(content.trials, minTrials[p])])]
                                /\ stdout' = [stdout EXCEPT ![p] =
                                        Append(@, [kind |-> "using",
                                                   file |-> <<pol>>,
                                                   n |-> UseTrials(content.trials,
                                                                   minTrials[p]),
                                                   cond |-> c[p]])]
                                /\ cur' = [cur EXCEPT ![p] = seen]
                                /\ pc' = [pc EXCEPT ![p] =
                                        IF idx = Len(order[p]) THEN "estimate"
                                        ELSE "load"]
                                /\ UNCHANGED <<subjLog, raised>>
    /\ UNCHANGED <<config, fs, sIdx, c, counter, fullFilename, outputFilename,
                   outputFile, plvF, attempts, opens>>

\* lines 110-112: the call of the estimator
Bootfunc(p) ==
    /\ pc[p] = "estimate"
    /\ LET called == [cur[p] EXCEPT !.estCalls = @ + 1]
       IN  \E r \in EstimatorOutcomes :
            IF r = "ok"
            THEN /\ cur' = [cur EXCEPT ![p] = called]
                 /\ pc' = [pc EXCEPT ![p] = "header"]
                 /\ UNCHANGED <<stdout, subjLog, raised>>
            ELSE Except(p, r, "estimator", l[p], mat[p], called)
    /\ UNCHANGED <<config, fs, sIdx, c, counter, fullFilename, outputFilename,
                   outputFile, l, mat, combinedData, plvF, attempts, opens>>

\* lines 119-136: write the column headers
WriteHeader(p) ==
    /\ pc[p] = "header"
    /\ \E ok \in CallOutcomes :
        IF ok
        THEN /\ fs' = [fs EXCEPT ![outputFile[p].path] =
                            WriteAt(@, outputFile[p].pos, Header)]
             /\ outputFile' = [outputFile EXCEPT ![p].pos = @ + 1]
             /\ plvF' = [plvF EXCEPT ![p] = 0]
             /\ pc' = [pc EXCEPT ![p] = "rows"]
             /\ UNCHANGED <<stdout, cur, subjLog, raised>>
        ELSE /\ Except(p, "IOError", "write", l[p], mat[p], cur[p])
             /\ UNCHANGED <<fs, outputFile, plvF>>
    /\ UNCHANGED <<config, sIdx, c, counter, fullFilename, outputFilename, l,
                   mat, combinedData, attempts, opens>>

\* lines 139-179: write the row of the next frequency; plvF is the index the
\* loop has reached
WriteRow(p) ==
    /\ pc[p] = "rows"
    /\ plvF[p] \in FreqRange
    /\ \E ok \in CallOutcomes :
        IF ok
        THEN /\ fs' = [fs EXCEPT ![outputFile[p].path] =
                            WriteAt(@, outputFile[p].pos,
                                    DataRow(CurSubject(p), c[p], minTrials[p],
                                            plvF[p]))]
             /\ outputFile' = [outputFile EXCEPT ![p].pos = @ + 1]
             /\ plvF' = [plvF EXCEPT ![p] = @ + 1]
             /\ UNCHANGED <<pc, stdout, cur, subjLog, raised>>
        ELSE /\ Except(p, "IOError", "write", l[p], mat[p], cur[p])
             /\ UNCHANGED <<fs, outputFile, plvF>>
    /\ UNCHANGED <<config, sIdx, c, counter, fullFilename, outputFilename, l,
                   mat, combinedData, attempts, opens>>

\* line 181: the loop over the frequencies is over; close the file
CloseOutput(p) ==
    /\ pc[p] = "rows"
    /\ plvF[p] \notin FreqRange
    /\ outputFile' = [outputFile EXCEPT ![p].closed = TRUE]
    /\ cur' = [cur EXCEPT ![p].outcome = "completed"]
    /\ subjLog' = [subjLog EXCEPT ![p] =
                        Append(@, Finished([cur[p] EXCEPT !.outcome = "completed"]))]
    /\ pc' = [pc EXCEPT ![p] = "iter"]
    /\ UNCHANGED <<config, fs, sIdx, c, counter, fullFilename, outputFilename,
                   l, mat, combinedData, plvF, stdout, attempts, opens, raised>>

(***************************************************************************)
(* Specifications.                                                         *)
(***************************************************************************)
\* the variables of the instances before the first loop header
Fresh(ps, orders) ==
    /\ procs = ps
    /\ order \in [ps -> orders]
    /\ sIdx = [p \in ps |-> 0]
    /\ c = [p \in ps |-> 0]
    /\ counter = [p \in ps |-> 0]
    /\ outputFilename = [p \in ps |-> <<>>]
    /\ outputFile = [p \in ps |-> NoFile]
    /\ l = [p \in ps |-> 0]
    /\ mat = [p \in ps |-> 0]
    /\ combinedData = [p \in ps |-> <<>>]
    /\ plvF = [p \in ps |-> 0]
    /\ stdout = [p \in ps |-> <<>>]
    /\ attempts = [p \in ps |-> <<>>]
    /\ subjLog = [p \in ps |-> <<>>]
    /\ opens = [p \in ps |-> <<>>]
    /\ raised = [p \in ps |-> <<>>]

Start(ps, orders) ==
    /\ Fresh(ps, orders)
    /\ pc = [p \in ps |-> "iter"]
    /\ fullFilename = [p \in ps |-> <<>>]
    /\ cur = [p \in ps |-> NoCur]

\* one instance
Init ==
    /\ Start({1}, DictOrders)
    /\ \E run \in Runs :
        /\ subjectList = [p \in {1} |-> run.subjects]
        /\ faults = run.faults
    /\ minTrials \in [{1} -> MinTrialsArgs]
    /\ \E k \in 0..MaxChain :
        fs = [f \in LeftByEarlierRuns(k) |-> <<Header>>]

Next ==
    \E p \in procs :
        \/ LoopHead(p)
        \/ CheckFilename(p)
        \/ OpenOutput(p)
        \/ LoadMat(p)
        \/ Bootfunc(p)
        \/ WriteHeader(p)
        \/ WriteRow(p)
        \/ CloseOutput(p)

Spec == Init /\ [][Next]_vars

\* one instance that runs on until it ends, in a save directory holding the
\* files of one earlier run
InitFair ==
    /\ Init
    /\ fs = [f \in LeftByEarlierRuns(1) |-> <<Header>>]

FairSpec == InitFair /\ [][Next]_vars /\ WF_vars(Next)


\* _check_filename alone: the state on entry to the loop of line 47, for a
\* requested name and a save directory holding files with colliding names
RequestNames == {<<"x", ".", "csv">>, <<"x">>, <<".", "csv">>}

CollidingNames(name) ==
    {Chain(name, d) : d \in 0..MaxChain}
    \cup {NextCandidate(name, k) : k \in 1..(MaxChain + 1)}

InitResolver ==
    /\ Fresh({1}, DictOrders)
    /\ subjectList = [p \in {1} |-> <<>>]
    /\ minTrials \in [{1} -> MinTrialsArgs]
    /\ faults = "none"
    /\ \E name \in RequestNames :
        \E existing \in SUBSET CollidingNames(Join(SaveDir, name)) :
            /\ fs = [f \in existing |-> <<Header>>]
            /\ fullFilename = [p \in {1} |-> Join(SaveDir, name)]
            /\ cur = [p \in {1} |->
                        [NoCur EXCEPT !.requested = Join(SaveDir, name),
                                      !.fsBefore = fs, !.outcome = "running"]]
    /\ pc = [p \in {1} |-> "check"]

NextResolver == \E p \in procs : CheckFilename(p)

SpecResolver == InitResolver /\ [][NextResolver]_vars

\* the loop runs on until its condition fails
FairResolver == SpecResolver /\ WF_vars(NextResolver)

\* one instance, or two instances working in the same save directory; every
\* call succeeds
ConcurrentRuns == {[instances |-> {1}, subjects |-> <<"a", "a">>],
                   [instances |-> {1, 2}, subjects |-> <<"a">>]}

InitConc ==
    /\ \E run \in ConcurrentRuns :
        /\ Start(run.instances, {<<"positive", "negative">>})
        /\ subjectList = [p \in run.instances |-> run.subjects]
    /\ minTrials \in [procs -> MinTrialsArgs]
    /\ faults = "none"
    /\ fs = << >>

SpecConc == InitConc /\ [][Next]_vars


(***************************************************************************)
(* Properties.                                                             *)
(***************************************************************************)
Returned(p) == pc[p] = "open"

HasCsvExtension(name) ==
    SplitExtRoot(name) \o <<".", "csv">> = name

\* the name x_k.csv for a requested name x.csv
Numbered(requested, k) == SplitExtRoot(requested) \o <<"_">> \o Str(k) \o <<".", "csv">>

\* the smallest k >= 1 whose numbered name is free; at most one more than the
\* number of files
SmallestFree(fsys, requested) ==
    CHOOSE k \in 1..(Cardinality(DOMAIN fsys) + 1) :
        /\ ~PathExists(fsys, Numbered(requested, k))
        /\ \A j \in 1..(k - 1) : PathExists(fsys, Numbered(requested, j))

\* C1: when the requested name x.csv exists, _check_filename returns x_k.csv
\* for the smallest k >= 1 such that x_k.csv does not exist.
C1_SequentialNumbering ==
    \A p \in procs :
        (Returned(p) /\ HasCsvExtension(cur[p].requested)
                /\ PathExists(fs, cur[p].requested))
            => outputFilename[p] =
                    Numbered(cur[p].requested, SmallestFree(fs, cur[p].requested))

\* C2: _check_filename terminates, the path it returns does not exist, and a
\* requested name that does not exist is returned unchanged.
C2_ReturnsFreePath ==
    /\ [](\A p \in procs :
            Returned(p) =>
                /\ ~PathExists(fs, outputFilename[p])
                /\ (~PathExists(fs, cur[p].requested)
                        => outputFilename[p] = cur[p].requested))
    /\ <>(\A p \in procs : Returned(p))

C2_Witness ==
    /\ Returned(1)
    /\ counter[1] >= 2
    /\ outputFilename[1] # cur[1].requested
    /\ ~PathExists(fs, outputFilename[1])

\* C3: a loaded matrix with minTrials trials or fewer makes the condition be
\* skipped, for either polarity; only matrices with more than minTrials
\* trials are subsampled and reach the estimator.
C3_StrictTrialCheck ==
    \A p \in procs :
        /\ \A i \in 1..Len(cur[p].loads) :
            LET m == cur[p].loads[i].content
            IN  (m.kind = "mat" /\ m.trials <= minTrials[p])
                    => /\ cur[p].outcome = "skipped"
                       /\ pc[p] \in {"iter", "check", "done"}
                       /\ Len(combinedData[p]) < i
                       /\ cur[p].estCalls = 0
        /\ (pc[p] \in {"load", "estimate", "header", "rows"}
                \/ cur[p].estCalls > 0)
            => \A i \in 1..Len(combinedData[p]) :
                /\ cur[p].loads[i].content.trials > minTrials[p]
                /\ combinedData[p][i].nTrials = minTrials[p]

C3_Witness ==
    /\ cur[1].outcome = "skipped"
    /\ Len(cur[1].loads) = 2
    /\ cur[1].loads[2].content =
            [kind |-> "mat", trials |-> minTrials[1], rate |-> Fs]
    /\ cur[1].loads[2].pol = "negative"

\* C4: when the sample rate recorded in either polarity's file differs from
\* the configured one, the condition is skipped: the estimator is not called
\* and the output file, already created, is left empty.
C4_RateMismatchSkips ==
    \A p \in procs :
        \A i \in 1..Len(cur[p].loads) :
            LET m == cur[p].loads[i].content
            IN  (m.kind = "mat" /\ m.rate # Fs)
                    => /\ cur[p].outcome = "skipped"
                       /\ pc[p] \in {"iter", "check", "done"}
                       /\ cur[p].estCalls = 0
                       /\ PathExists(fs, cur[p].path)
                       /\ fs[cur[p].path] = <<>>

C4_Witness ==
    /\ cur[1].outcome = "skipped"
    /\ cur[1].cause = "rate"
    /\ Len(cur[1].loads) = 2
    /\ fs[cur[1].path] = <<>>

IsPrefix(a, b) == Len(a) <= Len(b) /\ a = SubSeq(b, 1, Len(a))

\* an exception no handler of the try statement is written for
Unrecognized(p) ==
    \E i \in 1..Len(raised[p]) :
        \/ raised[p][i].place # "try"
        \/ raised[p][i].kind \notin {"IOError", "AssertionError"}

\* C5: the (subject, condition) pairs are attempted once each, subjects in
\* command-line order and conditions in order 1, 2, 3; when the only failures
\* are missing input files and failed checks, the run finishes with all
\* pairs attempted.
C5_RunContinuesAfterSkips ==
    /\ [](\A p \in procs : IsPrefix(attempts[p], AllPairs(p)))
    /\ \A p \in {1} :
        \/ <>Unrecognized(p)
        \/ <>(pc[p] = "done" /\ attempts[p] = AllPairs(p))

C5_Witness ==
    /\ pc[1] = "done"
    /\ attempts[1] = AllPairs(1)
    /\ \E i \in 1..Len(raised[1]) : raised[1][i].kind = "IOError"
    /\ \E i \in 1..Len(raised[1]) : raised[1][i].kind = "AssertionError"

\* a file holding one header row of 13 columns and then one row of 13
\* columns per analyzed frequency, in the order of the frequency index
CompleteFile(content, s, cnd) ==
    /\ Len(content) = 1 + NumFreqs
    /\ Len(content[1]) = 13
    /\ content[1] = Header
    /\ \A k \in 1..NumFreqs :
        /\ Len(content[k + 1]) = 13
        /\ content[k + 1][1] = <<s>>
        /\ content[k + 1][2] = Str(cnd)
        /\ content[k + 1][5] = <<"f">> \o Str(k - 1)

\* C6: a condition whose files load and pass the checks and whose estimator
\* returns leaves a file with the header row and one row per frequency, in
\* order, closed before the next iteration starts; a subject with three such
\* conditions yields three such files.
C6_CompleteOutput ==
    \A p \in procs :
        /\ cur[p].outcome = "completed"
            => /\ CompleteFile(fs[cur[p].path], CurSubject(p), c[p])
               /\ outputFile[p].path = cur[p].path
               /\ outputFile[p].closed
        /\ (pc[p] \in {"check", "open"} /\ c[p] > 1
                /\ subjLog[p][c[p] - 1].outcome = "completed")
            => /\ outputFile[p].closed
               /\ outputFile[p].path = subjLog[p][c[p] - 1].path
        /\ (Len(subjLog[p]) = NumConditions
                /\ \A i \in 1..NumConditions : subjLog[p][i].outcome = "completed")
            => /\ \A i \in 1..NumConditions :
                    CompleteFile(fs[subjLog[p][i].path], CurSubject(p), i)
               /\ \A i, j \in 1..NumConditions :
                    i # j => subjLog[p][i].path # subjLog[p][j].path

C6_Witness ==
    /\ pc[1] = "iter"
    /\ DOMAIN cur[1].fsBefore # {}
    /\ Len(subjLog[1]) = NumConditions
    /\ \A i \in 1..NumConditions : subjLog[1][i].outcome = "completed"

\* C7: a failure other than a missing input file or a failed check (a
\* malformed input file, an error of the estimator, a failed write to the
\* output file) terminates the whole run.
C7_OtherFailuresTerminate ==
    \A p \in procs :
        cur[p].cause \in {"malformed", "estimator", "write"}
            => pc[p] = "crashed"

SkipMessages(msgs) == {i \in 1..Len(msgs) : msgs[i].kind \in {"missing", "trials"}}

\* C8: an iteration that completes or is skipped has created exactly one new
\* file and left every file that existed before it as it was; a subject with
\* one condition's input missing and the others valid has two complete files,
\* one empty file and one skip message.
C8_OneNewFilePerIteration ==
    \A p \in procs :
        /\ cur[p].outcome \in {"running", "completed", "skipped", "crashed"}
            => \A f \in DOMAIN cur[p].fsBefore :
                    PathExists(fs, f) /\ fs[f] = cur[p].fsBefore[f]
        /\ cur[p].outcome \in {"completed", "skipped"}
            => /\ ~PathExists(cur[p].fsBefore, cur[p].path)
               /\ DOMAIN fs = DOMAIN cur[p].fsBefore \cup {cur[p].path}
        /\ (Len(subjLog[p]) = NumConditions
                /\ \E i \in 1..NumConditions :
                    /\ subjLog[p][i].cause = "missing"
                    /\ \A j \in 1..NumConditions \ {i} :
                            subjLog[p][j].outcome = "completed")
            => /\ \A i \in 1..NumConditions :
                    /\ PathExists(fs, subjLog[p][i].path)
                    /\ IF subjLog[p][i].cause = "missing"
                       THEN fs[subjLog[p][i].path] = <<>>
                       ELSE CompleteFile(fs[subjLog[p][i].path], CurSubject(p), i)
               /\ Cardinality(SkipMessages(
                        SubSeq(stdout[p], subjLog[p][1].outMark + 1,
                               Len(stdout[p])))) = 1

C8_Witness ==
    /\ Len(subjLog[1]) = NumConditions
    /\ subjLog[1][2].cause = "missing"
    /\ subjLog[1][1].outcome = "completed"
    /\ subjLog[1][3].outcome = "completed"
    /\ DOMAIN cur[1].fsBefore # {}
    /\ PathExists(cur[1].fsBefore, cur[1].requested)

PairwiseDistinct(seq) == \A i, j \in 1..Len(seq) : i # j => seq[i] # seq[j]

\* C9: a single instance never opens the same output path twice; two
\* instances can resolve the same path and both open it.
C9_SingleInstanceOpensDistinctPaths ==
    Cardinality(procs) = 1 => \A p \in procs : PairwiseDistinct(opens[p])

C9_Witness ==
    /\ procs = {1, 2}
    /\ pc[1] \in {"load", "estimate", "header", "rows"}
    /\ pc[2] \in {"load", "estimate", "header", "rows"}
    /\ outputFilename[1] = outputFilename[2]
    /\ outputFile[1].path = outputFile[2].path
    /\ ~outputFile[1].closed
    /\ ~outputFile[2].closed

\* C10: the missing-file message is printed only when an input file could
\* not be opened, the insufficient-trials message only when the trial count
\* it reports is not greater than minTrials; both name the polarity file
\* being processed and the loop's condition.
C10_MessagesReportCause ==
    \A p \in procs :
        cur[p].outcome = "skipped"
            => LET m == Last(stdout[p])
               IN  /\ m.kind \in {"missing", "trials"}
                   /\ m.kind = "missing" => cur[p].cause = "missing"
                   /\ m.kind = "trials"
                        => cur[p].cause = "trials" /\ m.n <= minTrials[p]
                   /\ m.file = CurLoadName(p, Len(cur[p].loads))
                   /\ m.cond = c[p]

====
